---- MODULE Spec2Model ----
(***************************************************************************)
(* A model of syntect's SyntaxSet / SyntaxSetBuilder                       *)
(* (src/src/parsing/syntax_set.rs): building (flattening and linking) a    *)
(* set of syntax definitions, turning a set back into a builder, and the   *)
(* lookups on a built set.                                                 *)
(*                                                                         *)
(* Conventions.  Option<T> is a sequence of length 0 (None) or 1           *)
(* (Some(x) = <<x>>).  A ContextId is its 0-based index; the contexts      *)
(* vector is a TLA+ sequence, so get_context(id) is contexts[id + 1].      *)
(* A HashMap<String, V> is a function whose domain is the set of keys.     *)
(* A path is a sequence of one-character strings.                          *)
(***************************************************************************)
EXTENDS Integers, Sequences, FiniteSets, TLC

\* ------------------------------------------------------------ bounds -----

\* Most syntaxes a builder holds.
MaxSyntaxes == 3
\* Most build() calls in one behaviour.
MaxBuilds == 2
\* Number of distinct HashMap iteration orders explored by build().
HashSeeds == 2
\* Number of threads that share a built set.
NThreads == 2

\* ------------------------------------------------------------ Option -----

None == <<>>
Some(x) == <<x>>

\* HashMap::get
Get(map, key) == IF key \in DOMAIN map THEN Some(map[key]) ELSE None

\* HashMap::insert
MapInsert(map, key, value) ==
    [k \in (DOMAIN map) \cup {key} |-> IF k = key THEN value ELSE map[k]]

\* The values of a map or the elements of a sequence.
Range(f) == {f[x] : x \in DOMAIN f}

\* ------------------------------------------- syntax_definition types -----

\* ContextReference
Named(s) == [t |-> "Named", s |-> s]
Inline(s) == [t |-> "Inline", s |-> s]
ByScope(scope, sub_context) ==
    [t |-> "ByScope", scope |-> scope, sub_context |-> sub_context]
File(name, sub_context) ==
    [t |-> "File", name |-> name, sub_context |-> sub_context]
Direct(id) == [t |-> "Direct", id |-> id]

\* MatchOperation
Push(context_refs) == [op |-> "Push", context_refs |-> context_refs]
Set(context_refs) == [op |-> "Set", context_refs |-> context_refs]
Pop == [op |-> "Pop"]
NoOp == [op |-> "None"]

\* Pattern
Match(operation, with_prototype) ==
    [kind |-> "Match", operation |-> operation, with_prototype |-> with_prototype]
Include(context_ref) == [kind |-> "Include", ref |-> context_ref]

\* Context, as the loader produces it: the prototype field is filled by build().
Context(meta_include_prototype, patterns) ==
    [meta_include_prototype |-> meta_include_prototype,
     prototype |-> None,
     patterns |-> patterns]

\* The bytes of the context names used below (str's Ord is byte-lexicographic).
NameBytes(name) ==
    CASE name = "#anon_0" -> <<35, 97, 110, 111, 110, 95, 48>>
      [] name = "#anon_1" -> <<35, 97, 110, 111, 110, 95, 49>>
      [] name = "$top_level_main" ->
            <<36, 116, 111, 112, 95, 108, 101, 118, 101, 108, 95, 109, 97, 105, 110>>
      [] name = "comments" -> <<99, 111, 109, 109, 101, 110, 116, 115>>
      [] name = "extra" -> <<101, 120, 116, 114, 97>>
      [] name = "main" -> <<109, 97, 105, 110>>
      [] name = "off" -> <<111, 102, 102>>
      [] name = "prototype" -> <<112, 114, 111, 116, 111, 116, 121, 112, 101>>

\* ------------------------------------------------ input definitions -----

\* tests::syntax_a
syntax_a ==
    [name |-> "A", file_extensions |-> <<"a">>, scope |-> "source.a",
     first_line_match |-> None, hidden |-> FALSE, variables |-> <<>>,
     contexts |->
        [n \in {"main"} |->
            Context(TRUE, <<Match(NoOp, None),
                            Match(Push(<<ByScope("source.b", Some("main"))>>), None)>>)]]

\* tests::syntax_b
syntax_b ==
    [name |-> "B", file_extensions |-> <<"b">>, scope |-> "source.b",
     first_line_match |-> None, hidden |-> FALSE, variables |-> <<>>,
     contexts |-> [n \in {"main"} |-> Context(TRUE, <<Match(NoOp, None)>>)]]

\* syntax_c of tests::can_add_more_syntaxes_with_builder
syntax_c ==
    [name |-> "C", file_extensions |-> <<"c">>, scope |-> "source.c",
     first_line_match |-> None, hidden |-> FALSE, variables |-> <<>>,
     contexts |->
        [n \in {"main"} |->
            Context(TRUE, <<Match(NoOp, None),
                            Match(Push(<<ByScope("source.a", Some("main"))>>), None)>>)]]

\* cmake_dummy_syntax of tests::can_load: a syntax without contexts.
syntax_cmake ==
    [name |-> "CMake", file_extensions |-> <<"CMakeLists.txt", "cmake">>,
     scope |-> "source.cmake",
     first_line_match |-> None, hidden |-> FALSE, variables |-> <<>>,
     contexts |-> <<>>]

\* The definitions the lookups by extension, token and first line are run
\* on: syntaxes without contexts, like cmake_dummy_syntax.
syntax_ruby ==
    [name |-> "Ruby", file_extensions |-> <<"rb">>, scope |-> "source.ruby",
     first_line_match |-> Some("^#!rb"), hidden |-> FALSE, variables |-> <<>>,
     contexts |-> <<>>]

\* Its name is the extension of syntax_ruby but for the case; its first-line
\* pattern matches wherever syntax_ruby's does.
syntax_rb ==
    [name |-> "RB", file_extensions |-> <<"r">>, scope |-> "source.r",
     first_line_match |-> Some("rb"), hidden |-> FALSE, variables |-> <<>>,
     contexts |-> <<>>]

\* Its extension is a whole file name; its first-line pattern does not compile.
syntax_bad ==
    [name |-> "Bad", file_extensions |-> <<"x.rb">>, scope |-> "source.bad",
     first_line_match |-> Some("("), hidden |-> FALSE, variables |-> <<>>,
     contexts |-> <<>>]

\* Its extension is the name of a dot file; it has no first-line pattern.
syntax_plain ==
    [name |-> "Plain", file_extensions |-> <<".rc">>, scope |-> "text.plain",
     first_line_match |-> None, hidden |-> FALSE, variables |-> <<>>,
     contexts |-> <<>>]

LookupDefinitions == {syntax_ruby, syntax_rb, syntax_bad, syntax_plain}

\* A syntax with a prototype whose contexts refer to each other cyclically.
syntax_p ==
    [name |-> "P", file_extensions |-> <<"p">>, scope |-> "source.p",
     first_line_match |-> Some("^#!p"), hidden |-> FALSE, variables |-> <<>>,
     contexts |->
        [n \in {"prototype", "comments", "#anon_0", "#anon_1", "main", "off"} |->
            CASE n = "prototype" ->
                    Context(TRUE,
                        <<Include(Named("comments")),
                          Match(Push(<<Inline("#anon_0"), ByScope("source.b", None)>>),
                                Some(Named("main")))>>)
              [] n = "comments" ->
                    Context(TRUE,
                        <<Match(Set(<<Named("prototype")>>), None),
                          Include(Inline("#anon_1"))>>)
              [] n = "#anon_0" ->
                    Context(TRUE,
                        <<Match(Pop, None),
                          Include(File("B", None)),
                          Include(Named("$top_level_main"))>>)
              [] n = "#anon_1" ->
                    Context(TRUE, <<Include(Named("$top_level_main"))>>)
              [] n = "main" ->
                    Context(TRUE,
                        <<Match(Push(<<Named("missing"), Named("comments")>>),
                                Some(Inline("#anon_1"))),
                          Match(NoOp, Some(ByScope("source.a", None)))>>)
              [] n = "off" ->
                    Context(FALSE, <<Include(File("Q", Some("$top_level_main")))>>)]]

\* A second syntax with a prototype; it shares its scope with syntax_a and has
\* a context that is literally named "$top_level_main".
syntax_q ==
    [name |-> "Q", file_extensions |-> <<"q", "a">>, scope |-> "source.a",
     first_line_match |-> None, hidden |-> TRUE, variables |-> <<>>,
     contexts |->
        [n \in {"prototype", "main", "$top_level_main"} |->
            CASE n = "prototype" ->
                    Context(TRUE, <<Match(Set(<<Named("main")>>), None)>>)
              [] n = "main" ->
                    Context(TRUE,
                        <<Include(Named("comments")),
                          Include(ByScope("source.p", Some("comments")))>>)
              [] n = "$top_level_main" ->
                    Context(TRUE, <<Include(Named("$top_level_main"))>>)]]

\* A syntax with the display name and the scope of syntax_b.
syntax_b2 ==
    [name |-> "B", file_extensions |-> <<"b2">>, scope |-> "source.b",
     first_line_match |-> None, hidden |-> FALSE, variables |-> <<>>,
     contexts |->
        [n \in {"main", "extra"} |->
            CASE n = "main" ->
                    Context(TRUE, <<Include(ByScope("source.zz", None))>>)
              [] n = "extra" ->
                    Context(TRUE,
                        <<Include(File("A", None)),
                          Include(ByScope("source.b", Some("extra"))),
                          Include(File("B", Some("extra")))>>)]]

\* The definitions add_syntax is called with.
Definitions == {syntax_a, syntax_b, syntax_p, syntax_q, syntax_b2}

\* The .sublime-syntax files load_syntaxes finds: <<path parts, definition>>.
SyntaxFiles ==
    { <<<< <<"P">>, <<"a">> >>, syntax_c>>,
      <<<< <<"P">>, <<"b", "a">> >>, syntax_cmake>>,
      <<<< <<"a">> >>, syntax_b2>> }

\* The files among them whose syntax has no contexts.
ContextlessFiles == {file \in SyntaxFiles : DOMAIN file[2].contexts = {}}

\* ------------------------------------------------- SyntaxSetBuilder -----

\* a < b in the byte-lexicographic order of str::cmp
RECURSIVE BytesLess(_, _)
BytesLess(a, b) ==
    IF b = <<>> THEN FALSE
    ELSE IF a = <<>> THEN TRUE
    ELSE IF Head(a) # Head(b) THEN Head(a) < Head(b)
    ELSE BytesLess(Tail(a), Tail(b))

NameLess(name_a, name_b) == BytesLess(NameBytes(name_a), NameBytes(name_b))

\* Some enumeration of a set (the order a HashMap happens to store its keys in).
RECURSIVE SetToSeq(_)
SetToSeq(S) ==
    IF S = {} THEN <<>>
    ELSE LET x == CHOOSE y \in S : TRUE IN <<x>> \o SetToSeq(S \ {x})

Reverse(seq) == [i \in 1..Len(seq) |-> seq[Len(seq) + 1 - i]]

Rotate(seq, k) ==
    [i \in 1..Len(seq) |-> seq[((i - 1 + k) % Len(seq)) + 1]]

\* contexts.into_iter().collect(): the keys of the HashMap in its iteration
\* order, which the language leaves unspecified; seed selects one order.
IntoIter(map, seed) ==
    LET base == SetToSeq(DOMAIN map)
        turned == IF base = <<>> THEN base ELSE Rotate(base, seed \div 2)
    IN IF seed % 2 = 1 THEN Reverse(turned) ELSE turned

\* Insert name into a sequence that is sorted by name.
RECURSIVE SortedInsert(_, _)
SortedInsert(sorted, name) ==
    IF sorted = <<>> THEN <<name>>
    ELSE IF NameLess(name, Head(sorted)) THEN <<name>> \o sorted
    ELSE <<Head(sorted)>> \o SortedInsert(Tail(sorted), name)

RECURSIVE SortFrom(_, _)
SortFrom(names, sorted) ==
    IF names = <<>> THEN sorted
    ELSE SortFrom(Tail(names), SortedInsert(sorted, Head(names)))

\* A faulty variant of SortByName: the sort is left out.
SortByName_Unsorted(names) == names

\* contexts.sort_by(|(name_a, _), (name_b, _)| name_a.cmp(&name_b))
SortByName(names) == SortFrom(names, <<>>)

\* let index = all_contexts.len();
NewIndex(all_contexts) == Len(all_contexts)

\* The loop `for (name, context) in contexts` of build(): each context is
\* pushed onto all_contexts and its index recorded under its name.
RECURSIVE PushContexts(_, _, _, _)
PushContexts(names, contexts, map, all_contexts) ==
    IF names = <<>> THEN [map |-> map, all_contexts |-> all_contexts]
    ELSE LET name == Head(names)
             index == NewIndex(all_contexts)
         IN PushContexts(Tail(names), contexts,
                         MapInsert(map, name, index),
                         Append(all_contexts, contexts[name]))

\* The first loop of build(): every SyntaxDefinition becomes a
\* SyntaxReference whose contexts map holds ContextIds.
RECURSIVE AssignContexts(_, _, _, _)
AssignContexts(syntax_definitions, seed, syntaxes, all_contexts) ==
    IF syntax_definitions = <<>>
    THEN [syntaxes |-> syntaxes, all_contexts |-> all_contexts]
    ELSE LET syntax_definition == Head(syntax_definitions)
             contexts == SortByName(IntoIter(syntax_definition.contexts, seed))
             pushed == PushContexts(contexts, syntax_definition.contexts,
                                    <<>>, all_contexts)
             syntax == [name |-> syntax_definition.name,
                        file_extensions |-> syntax_definition.file_extensions,
                        scope |-> syntax_definition.scope,
                        first_line_match |-> syntax_definition.first_line_match,
                        hidden |-> syntax_definition.hidden,
                        variables |-> syntax_definition.variables,
                        contexts |-> pushed.map]
         IN AssignContexts(Tail(syntax_definitions), seed,
                           Append(syntaxes, syntax), pushed.all_contexts)

\* The context names recursively_mark_no_prototype follows from one pattern,
\* in the order it meets them.
RECURSIVE LocalNames(_)
LocalNames(context_refs) ==
    IF context_refs = <<>> THEN <<>>
    ELSE LET context_ref == Head(context_refs)
         IN (IF context_ref.t \in {"Inline", "Named"}
             THEN <<context_ref.s>> ELSE <<>>) \o LocalNames(Tail(context_refs))

\* A faulty variant of FollowedNames: Include patterns are not followed.
FollowedNames_MatchOnly(pattern) ==
    IF pattern.kind = "Match" /\ pattern.operation.op \in {"Push", "Set"}
    THEN LocalNames(pattern.operation.context_refs)
    ELSE <<>>

\* The names one pattern makes recursively_mark_no_prototype recurse into.
FollowedNames(pattern) ==
    IF pattern.kind = "Match"
    THEN IF pattern.operation.op \in {"Push", "Set"}
         THEN LocalNames(pattern.operation.context_refs)
         ELSE <<>>
    ELSE IF pattern.ref.t = "Named" THEN <<pattern.ref.s>> ELSE <<>>

RECURSIVE FollowedOfPatterns(_)
FollowedOfPatterns(patterns) ==
    IF patterns = <<>> THEN <<>>
    ELSE FollowedNames(Head(patterns)) \o FollowedOfPatterns(Tail(patterns))

RECURSIVE recursively_mark_no_prototype(_, _, _, _)
RECURSIVE MarkEach(_, _, _, _)

\* The recursive calls of recursively_mark_no_prototype, one per followed
\* name that is a context of the syntax, threading the no_prototype set.
MarkEach(syntax, names, contexts, no_prototype) ==
    IF names = <<>> THEN no_prototype
    ELSE LET i == Get(syntax.contexts, Head(names))
             marked == IF i # None
                       THEN recursively_mark_no_prototype(syntax, i[1], contexts,
                                                          no_prototype)
                       ELSE no_prototype
         IN MarkEach(syntax, Tail(names), contexts, marked)

recursively_mark_no_prototype(syntax, context_id, contexts, no_prototype) ==
    IF context_id \in no_prototype THEN no_prototype
    ELSE MarkEach(syntax, FollowedOfPatterns(contexts[context_id + 1].patterns),
                  contexts, no_prototype \cup {context_id})

\* Iterator::find / Iterator::position over a slice, given for every element
\* whether the closure accepts it: the (1-based) position of the first
\* accepted element.
RECURSIVE FirstFrom(_, _)
FirstFrom(accepted, i) ==
    IF i > Len(accepted) THEN None
    ELSE IF accepted[i] THEN Some(i)
    ELSE FirstFrom(accepted, i + 1)

\* A faulty variant of FindFirst: the last accepted element is taken.
RECURSIVE FindFirst_Last(_)
FindFirst_Last(accepted) ==
    IF accepted = <<>> THEN None
    ELSE IF accepted[Len(accepted)] THEN Some(Len(accepted))
    ELSE FindFirst_Last(SubSeq(accepted, 1, Len(accepted) - 1))

FindFirst(accepted) == FirstFrom(accepted, 1)

\* syntaxes.iter().find(|s| s.scope == scope)
FindByScope(syntaxes, scope) ==
    FindFirst([i \in DOMAIN syntaxes |-> syntaxes[i].scope = scope])

\* syntaxes.iter().find(|s| &s.name == name)
FindByName(syntaxes, name) ==
    FindFirst([i \in DOMAIN syntaxes |-> syntaxes[i].name = name])

\* sub_context.as_ref().map_or("main", |x| &**x)
ContextName(sub_context) ==
    IF sub_context = None THEN "main" ELSE sub_context[1]

\* A faulty variant of LocalContextId: "$top_level_main" is looked up like any name.
LocalContextId_Literal(s, syntax) == Get(syntax.contexts, s)

\* The Named | Inline arm of link_ref.
LocalContextId(s, syntax) ==
    IF s = "$top_level_main"
    THEN Get(syntax.contexts, "main")
    ELSE Get(syntax.contexts, s)

\* The ByScope arm of link_ref.
ScopeContextId(scope, sub_context, syntaxes) ==
    LET found == FindByScope(syntaxes, scope)
    IN IF found = None THEN None
       ELSE Get(syntaxes[found[1]].contexts, ContextName(sub_context))

\* The File arm of link_ref.
FileContextId(name, sub_context, syntaxes) ==
    LET found == FindByName(syntaxes, name)
    IN IF found = None THEN None
       ELSE Get(syntaxes[found[1]].contexts, ContextName(sub_context))

\* linked_context_id of link_ref
LinkedContextId(context_ref, syntax, syntaxes) ==
    CASE context_ref.t \in {"Named", "Inline"} ->
            LocalContextId(context_ref.s, syntax)
      [] context_ref.t = "ByScope" ->
            ScopeContextId(context_ref.scope, context_ref.sub_context, syntaxes)
      [] context_ref.t = "File" ->
            FileContextId(context_ref.name, context_ref.sub_context, syntaxes)
      [] context_ref.t = "Direct" -> None

\* A faulty variant of NewRef: the handle is taken one too far.
NewRef_OffByOne(context_id) == Direct(context_id + 1)

\* let mut new_ref = Direct(context_id.clone());
NewRef(context_id) == Direct(context_id)

\* A faulty variant of KeepRef: a reference that was not found falls back to the
\* first context of the set.
KeepRef_Fallback(context_ref) ==
    IF context_ref.t = "Direct" THEN context_ref ELSE Direct(0)

\* link_ref when linked_context_id is None: no swap, the reference stays.
KeepRef(context_ref) == context_ref

link_ref(context_ref, syntax, syntaxes) ==
    LET linked_context_id == LinkedContextId(context_ref, syntax, syntaxes)
    IN IF linked_context_id # None
       THEN NewRef(linked_context_id[1])
       ELSE KeepRef(context_ref)

link_match_pat(match_pat, syntax, syntaxes) ==
    LET operation ==
            IF match_pat.operation.op \in {"Push", "Set"}
            THEN [match_pat.operation EXCEPT !.context_refs =
                    [i \in DOMAIN @ |-> link_ref(@[i], syntax, syntaxes)]]
            ELSE match_pat.operation
        with_prototype ==
            IF match_pat.with_prototype # None
            THEN Some(link_ref(match_pat.with_prototype[1], syntax, syntaxes))
            ELSE None
    IN [match_pat EXCEPT !.operation = operation,
                         !.with_prototype = with_prototype]

LinkPattern(pattern, syntax, syntaxes) ==
    IF pattern.kind = "Match"
    THEN link_match_pat(pattern, syntax, syntaxes)
    ELSE [pattern EXCEPT !.ref = link_ref(@, syntax, syntaxes)]

link_context(context, syntax, syntaxes) ==
    [context EXCEPT !.patterns =
        [i \in DOMAIN @ |-> LinkPattern(@[i], syntax, syntaxes)]]

\* The condition under which build() sets a context's prototype field.
AttachesPrototype(context, context_id, no_prototype) ==
    context.meta_include_prototype /\ context_id \notin no_prototype

\* A faulty variant of PrototypeFor: the first prototype context of the set is used.
PrototypeFor_FirstOfSet(syntax, syntaxes) ==
    LET found == FindFirst([i \in DOMAIN syntaxes |->
                                "prototype" \in DOMAIN syntaxes[i].contexts])
    IN IF found = None THEN None ELSE Some(syntaxes[found[1]].contexts["prototype"])

\* let prototype = syntax.contexts.get("prototype");
PrototypeFor(syntax, syntaxes) == Get(syntax.contexts, "prototype")

\* The body of the loop `for context_id in syntax.contexts.values()`.  Every
\* iteration writes only all_contexts[context_id] and reads only the syntaxes
\* and the no_prototype set computed before the loop, so the iteration order
\* of the map does not show in the result.
LinkOneContext(context, context_id, prototype, no_prototype, syntax, syntaxes) ==
    LET with_proto ==
            IF prototype # None /\ AttachesPrototype(context, context_id, no_prototype)
            THEN [context EXCEPT !.prototype = Some(prototype[1])]
            ELSE context
    IN link_context(with_proto, syntax, syntaxes)

\* One iteration of the loop `for syntax in &syntaxes` of build().
LinkSyntax(syntax, syntaxes, all_contexts) ==
    LET prototype == PrototypeFor(syntax, syntaxes)
        no_prototype ==
            IF prototype # None
            THEN recursively_mark_no_prototype(syntax, prototype[1], all_contexts, {})
            ELSE {}
    IN [i \in DOMAIN all_contexts |->
            IF (i - 1) \in Range(syntax.contexts)
            THEN LinkOneContext(all_contexts[i], i - 1, prototype, no_prototype,
                                syntax, syntaxes)
            ELSE all_contexts[i]]

RECURSIVE LinkSyntaxes(_, _, _)
LinkSyntaxes(k, syntaxes, all_contexts) ==
    IF k > Len(syntaxes) THEN all_contexts
    ELSE LinkSyntaxes(k + 1, syntaxes, LinkSyntax(syntaxes[k], syntaxes, all_contexts))

\* FirstLineCache::new
FirstLineCache_new == [regexes |-> <<>>, cached_until |-> 0]

\* SyntaxSetBuilder::build, with the HashMap iteration order given by seed.
build(builder, seed) ==
    LET assigned == AssignContexts(builder.syntaxes, seed, <<>>, <<>>)
    IN [syntaxes |-> assigned.syntaxes,
        contexts |-> LinkSyntaxes(1, assigned.syntaxes, assigned.all_contexts),
        path_syntaxes |-> builder.path_syntaxes,
        first_line_cache |-> FirstLineCache_new]

\* A faulty variant of PushSyntax: the syntax is put in front.
PushSyntax_Front(syntaxes, syntax) == <<syntax>> \o syntaxes

\* self.syntaxes.push(syntax)
PushSyntax(syntaxes, syntax) == Append(syntaxes, syntax)

\* path_parts.join("/")
RECURSIVE JoinSlash(_)
JoinSlash(path_parts) ==
    IF path_parts = <<>> THEN <<>>
    ELSE IF Len(path_parts) = 1 THEN Head(path_parts)
    ELSE Head(path_parts) \o <<"/">> \o JoinSlash(Tail(path_parts))

\* ------------------------------------------------------- SyntaxSet -----

\* The builder_contexts of one syntax in into_builder: each context is taken
\* out of the flat vector under its name.  The ids of a set are distinct, so
\* context_map.remove finds every one of them.
BuilderContexts(syntax, contexts) ==
    [name \in {n \in DOMAIN syntax.contexts :
                    syntax.contexts[n] + 1 \in DOMAIN contexts}
        |-> contexts[syntax.contexts[name] + 1]]

\* SyntaxSet::into_builder
into_builder(set) ==
    [syntaxes |->
        [k \in DOMAIN set.syntaxes |->
            [name |-> set.syntaxes[k].name,
             file_extensions |-> set.syntaxes[k].file_extensions,
             scope |-> set.syntaxes[k].scope,
             first_line_match |-> set.syntaxes[k].first_line_match,
             hidden |-> set.syntaxes[k].hidden,
             variables |-> set.syntaxes[k].variables,
             contexts |-> BuilderContexts(set.syntaxes[k], set.contexts)]],
     path_syntaxes |-> set.path_syntaxes]

\* str::ends_with
EndsWith(str, suffix) ==
    /\ Len(suffix) <= Len(str)
    /\ SubSeq(str, Len(str) - Len(suffix) + 1, Len(str)) = suffix

\* A faulty variant of PathMatches: the "/" in front of the path is left out.
PathMatches_NoSlash(recorded, path) == EndsWith(recorded, path) \/ recorded = path

\* t.0.ends_with(&slash_path) || t.0 == path
PathMatches(recorded, path) ==
    LET slash_path == <<"/">> \o path
    IN EndsWith(recorded, slash_path) \/ recorded = path

\* SyntaxSet::find_syntax_by_path; the result is the index of the syntax the
\* returned reference points to.
find_syntax_by_path(set, path) ==
    LET found == FindFirst([i \in DOMAIN set.path_syntaxes |->
                                PathMatches(set.path_syntaxes[i][1], path)])
    IN IF found = None THEN None ELSE Some(set.path_syntaxes[found[1]][2])

\* ---------------------------------------------------------- strings -----

\* Result<T, E>
Ok(value) == [ok |-> TRUE, value |-> value]
Err(error) == [ok |-> FALSE, error |-> error]

\* The characters of the names, file extensions and first-line patterns of
\* the definitions the lookups are run on.
Chars(str) ==
    CASE str = "Ruby" -> <<"R", "u", "b", "y">>
      [] str = "RB" -> <<"R", "B">>
      [] str = "Bad" -> <<"B", "a", "d">>
      [] str = "Plain" -> <<"P", "l", "a", "i", "n">>
      [] str = "rb" -> <<"r", "b">>
      [] str = "B" -> <<"B">>
      [] str = "b" -> <<"b">>
      [] str = "r" -> <<"r">>
      [] str = "x.rb" -> <<"x", ".", "r", "b">>
      [] str = ".rc" -> <<".", "r", "c">>
      [] str = "^#!rb" -> <<"^", "#", "!", "r", "b">>
      [] str = "(" -> <<"(">>

\* The byte of an ASCII character.
Byte(c) ==
    CASE c = "\n" -> 10 [] c = " " -> 32 [] c = "!" -> 33 [] c = "#" -> 35
      [] c = "(" -> 40 [] c = "." -> 46 [] c = "/" -> 47
      [] c = "B" -> 66 [] c = "P" -> 80 [] c = "R" -> 82 [] c = "U" -> 85
      [] c = "Y" -> 89 [] c = "^" -> 94
      [] c = "a" -> 97 [] c = "b" -> 98 [] c = "c" -> 99 [] c = "d" -> 100
      [] c = "i" -> 105 [] c = "l" -> 108 [] c = "n" -> 110 [] c = "r" -> 114
      [] c = "u" -> 117 [] c = "x" -> 120 [] c = "y" -> 121 [] c = "z" -> 122

\* u8::to_ascii_lowercase
to_ascii_lowercase(byte) == IF byte >= 65 /\ byte <= 90 THEN byte + 32 ELSE byte

\* str::eq_ignore_ascii_case
eq_ignore_ascii_case(a, b) ==
    /\ Len(a) = Len(b)
    /\ \A i \in DOMAIN a :
            to_ascii_lowercase(Byte(a[i])) = to_ascii_lowercase(Byte(b[i]))

\* ---------------------------------------------------------- lookups -----

\* SyntaxSet::find_syntax_by_extension; the result is the index of the syntax
\* the returned reference points to.
find_syntax_by_extension(set, extension) ==
    LET found == FindFirst([k \in DOMAIN set.syntaxes |->
                    \E e \in Range(set.syntaxes[k].file_extensions) :
                        Chars(e) = extension])
    IN IF found = None THEN None ELSE Some(found[1] - 1)

\* self.syntaxes.iter().find(|&syntax| syntax.name.eq_ignore_ascii_case(s))
FindByNameIgnoreCase(set, s) ==
    LET found == FindFirst([k \in DOMAIN set.syntaxes |->
                    eq_ignore_ascii_case(Chars(set.syntaxes[k].name), s)])
    IN IF found = None THEN None ELSE Some(found[1] - 1)

\* A faulty variant of find_syntax_by_token: the name is tried first.
find_syntax_by_token_NameFirst(set, s) ==
    LET name_res == FindByNameIgnoreCase(set, s)
    IN IF name_res # None THEN name_res ELSE find_syntax_by_extension(set, s)

\* SyntaxSet::find_syntax_by_token
find_syntax_by_token(set, s) ==
    LET ext_res == find_syntax_by_extension(set, s)
    IN IF ext_res # None THEN ext_res ELSE FindByNameIgnoreCase(set, s)

\* ----------------------------------------------------- FirstLineCache -----

\* onig's Regex::new, for the patterns the definitions hold: a pattern with a
\* group that is never closed does not compile; any other one is an optional
\* "^" and the characters that have to follow literally.
Regex_new(reg_str) ==
    IF \E i \in DOMAIN reg_str :
            /\ reg_str[i] = "("
            /\ \A j \in DOMAIN reg_str : j > i => reg_str[j] # ")"
    THEN Err("end pattern with unmatched parenthesis")
    ELSE IF reg_str # <<>> /\ reg_str[1] = "^"
    THEN Ok([anchored |-> TRUE, literal |-> Tail(reg_str)])
    ELSE Ok([anchored |-> FALSE, literal |-> reg_str])

\* reg.find(s).is_some(): the literal occurs in s, at the start of a line of
\* s when the pattern is anchored.
Finds(reg, s) ==
    \E i \in 1..(Len(s) + 1) :
        /\ i + Len(reg.literal) - 1 <= Len(s)
        /\ SubSeq(s, i, i + Len(reg.literal) - 1) = reg.literal
        /\ reg.anchored => (i = 1 \/ s[i - 1] = "\n")

\* A faulty variant of FillOne: the entry records its position in the cache.
FillOne_Position(regexes, syntax, i) ==
    IF syntax.first_line_match = None THEN regexes
    ELSE LET reg == Regex_new(Chars(syntax.first_line_match[1]))
         IN IF reg.ok THEN Append(regexes, <<reg.value, Len(regexes)>>)
            ELSE regexes

\* The body of the loop of ensure_filled for element i of the enumerated
\* slice.
FillOne(regexes, syntax, i) ==
    IF syntax.first_line_match = None THEN regexes
    ELSE LET reg == Regex_new(Chars(syntax.first_line_match[1]))
         IN IF reg.ok THEN Append(regexes, <<reg.value, i>>) ELSE regexes

\* The loop of ensure_filled from element i of the enumerated slice on.
RECURSIVE FillFrom(_, _, _)
FillFrom(regexes, slice, i) ==
    IF i >= Len(slice) THEN regexes
    ELSE FillFrom(FillOne(regexes, slice[i + 1], i), slice, i + 1)

\* syntaxes[self.cached_until..]
UncachedSlice(cache, syntaxes) ==
    SubSeq(syntaxes, cache.cached_until + 1, Len(syntaxes))

\* FirstLineCache::ensure_filled
ensure_filled(cache, syntaxes) ==
    IF cache.cached_until >= Len(syntaxes) THEN cache
    ELSE [regexes |-> FillFrom(cache.regexes, UncachedSlice(cache, syntaxes), 0),
          cached_until |-> Len(syntaxes)]

\* The loop of find_syntax_by_first_line over cache.regexes: the index of
\* the first entry whose regex finds something in s.
FirstFinding(regexes, s) ==
    LET found == FindFirst([n \in DOMAIN regexes |-> Finds(regexes[n][1], s)])
    IN IF found = None THEN None ELSE Some(regexes[found[1]][2])

\* SyntaxSet::find_syntax_by_first_line: the index of the syntax the returned
\* reference points to, and the cache as the call leaves it.
find_syntax_by_first_line(set, s) ==
    LET cache == ensure_filled(set.first_line_cache, set.syntaxes)
    IN [result |-> FirstFinding(cache.regexes, s), first_line_cache |-> cache]

\* ------------------------------------------------------------ files -----

\* The pieces of chars between the occurrences of sep.
RECURSIVE SplitAt(_, _, _)
SplitAt(chars, sep, piece) ==
    IF chars = <<>> THEN <<piece>>
    ELSE IF Head(chars) = sep THEN <<piece>> \o SplitAt(Tail(chars), sep, <<>>)
    ELSE SplitAt(Tail(chars), sep, Append(piece, Head(chars)))

\* Path::components, without the root and the current-directory components.
Components(path) ==
    SelectSeq(SplitAt(path, "/", <<>>), LAMBDA c : c # <<>> /\ c # <<".">>)

\* Path::file_name
file_name(path) ==
    LET parts == Components(path)
    IN IF parts = <<>> \/ parts[Len(parts)] = <<".", ".">> THEN None
       ELSE Some(parts[Len(parts)])

\* Path::extension: what follows the last "." of the file name, unless the
\* name has no "." or only the one it begins with.
extension(path) ==
    LET name == file_name(path)
        dots == IF name = None THEN {} ELSE {i \in DOMAIN name[1] : name[1][i] = "."}
        last == CHOOSE i \in dots : \A j \in dots : j <= i
    IN IF dots = {} \/ last = 1 THEN None
       ELSE Some(SubSeq(name[1], last + 1, Len(name[1])))

\* Option::unwrap_or("")
UnwrapOrEmpty(option) == IF option = None THEN <<>> ELSE option[1]

\* What is found at a path: nothing, something that cannot be read as text,
\* or a file with its text.
NoFile == [exists |-> FALSE]
Unreadable == [exists |-> TRUE, readable |-> FALSE]
TextFile(text) == [exists |-> TRUE, readable |-> TRUE, text |-> text]

\* BufRead::read_line: the text up to and including the first newline.
read_line(text) ==
    LET newlines == {i \in DOMAIN text : text[i] = "\n"}
    IN IF newlines = {} THEN text
       ELSE SubSeq(text, 1, CHOOSE i \in newlines : \A j \in newlines : i <= j)

\* A faulty variant of ExtensionSyntax: the extension is tried before the
\* whole file name.
ExtensionSyntax_ExtensionFirst(set, path) ==
    LET by_extension == find_syntax_by_extension(set, UnwrapOrEmpty(extension(path)))
    IN IF by_extension # None THEN by_extension
       ELSE find_syntax_by_extension(set, UnwrapOrEmpty(file_name(path)))

\* self.find_syntax_by_extension(file_name)
\*     .or_else(|| self.find_syntax_by_extension(extension))
ExtensionSyntax(set, path) ==
    LET by_name == find_syntax_by_extension(set, UnwrapOrEmpty(file_name(path)))
    IN IF by_name # None THEN by_name
       ELSE find_syntax_by_extension(set, UnwrapOrEmpty(extension(path)))

\* SyntaxSet::find_syntax_for_file, with what the file system holds at the
\* path: the io::Result, whether the file was opened, and the cache as the
\* call leaves it.
find_syntax_for_file(set, path, file) ==
    LET ext_syntax == ExtensionSyntax(set, path)
    IN IF ext_syntax # None
       THEN [result |-> Ok(ext_syntax), opened |-> FALSE,
             first_line_cache |-> set.first_line_cache]
       ELSE IF ~file.exists
       THEN [result |-> Err("File::open"), opened |-> TRUE,
             first_line_cache |-> set.first_line_cache]
       ELSE IF ~file.readable
       THEN [result |-> Err("read_line"), opened |-> TRUE,
             first_line_cache |-> set.first_line_cache]
       ELSE LET line_syntax == find_syntax_by_first_line(set, read_line(file.text))
            IN [result |-> Ok(line_syntax.result), opened |-> TRUE,
                first_line_cache |-> line_syntax.first_line_cache]

\* A faulty variant of clone: the cache is copied with the other fields.
clone_WithCache(set) == set

\* impl Clone for SyntaxSet
clone(set) ==
    [syntaxes |-> set.syntaxes,
     contexts |-> set.contexts,
     path_syntaxes |-> set.path_syntaxes,
     first_line_cache |-> FirstLineCache_new]

\* ---------------------------------------------------- serialization -----

\* serialize_with = "ordered_map": the entries of the map as a sequence
\* sorted by key.
ordered_map(map) ==
    LET keys == SortByName(SetToSeq(DOMAIN map))
    IN [i \in DOMAIN keys |-> <<keys[i], map[keys[i]]>>]

\* Deserialize for HashMap: the map that holds the entries of the sequence.
MapFromEntries(entries) ==
    [key \in {entries[i][1] : i \in DOMAIN entries} |->
        LET i == CHOOSE j \in DOMAIN entries : entries[j][1] = key
        IN entries[i][2]]

\* derive(Serialize) for SyntaxReference: its fields in declaration order.
SerializeSyntax(syntax) ==
    <<syntax.name, syntax.file_extensions, syntax.scope, syntax.first_line_match,
      syntax.hidden, ordered_map(syntax.variables), ordered_map(syntax.contexts)>>

\* derive(Deserialize) for SyntaxReference
DeserializeSyntax(data) ==
    [name |-> data[1], file_extensions |-> data[2], scope |-> data[3],
     first_line_match |-> data[4], hidden |-> data[5],
     variables |-> MapFromEntries(data[6]), contexts |-> MapFromEntries(data[7])]

\* A faulty variant of serialize: the cache is emitted as a fourth field.
serialize_WithCache(set) ==
    <<[k \in DOMAIN set.syntaxes |-> SerializeSyntax(set.syntaxes[k])],
      set.contexts, set.path_syntaxes, set.first_line_cache>>

\* derive(Serialize) for SyntaxSet: the fields in declaration order, without
\* the first_line_cache that is marked skip_serializing.
serialize(set) ==
    <<[k \in DOMAIN set.syntaxes |-> SerializeSyntax(set.syntaxes[k])],
      set.contexts, set.path_syntaxes>>

\* derive(Deserialize) for SyntaxSet: first_line_cache, marked
\* skip_deserializing, is Default::default().
deserialize(data) ==
    [syntaxes |-> [k \in DOMAIN data[1] |-> DeserializeSyntax(data[1][k])],
     contexts |-> data[2],
     path_syntaxes |-> data[3],
     first_line_cache |-> FirstLineCache_new]

\* ------------------------------------------------------------ state -----

VARIABLES
    builder,      \* Option<SyntaxSetBuilder>: the builder, while it is owned
    syntax_set,   \* Option<SyntaxSet>: the built set, while it is owned
    origin,       \* history: the definitions as they were pushed, in order
    built_from,   \* history: the builder the latest build() consumed
    previous,     \* history: the set the latest into_builder() consumed
    added,        \* history: syntaxes pushed since the latest into_builder()
    builds,       \* history: number of build() calls so far
    call,         \* the latest lookup on the set: its name, argument, result
    copy,         \* Option<SyntaxSet>: a clone of the set, or a deserialized one
    copied,       \* history: the set the copy was made of, as it was then
    dump,         \* Option: the serialized set
    mutex,        \* the thread that holds the lock of first_line_cache, if any
    threads,      \* for each thread sharing the set: where it is in its lookup
    fills,        \* history: number of times the loop of ensure_filled was entered
    mark          \* the run of recursively_mark_no_prototype that is followed

setVars == <<builder, syntax_set, origin, built_from, previous, added, builds>>
copyVars == <<copy, copied, dump>>
threadVars == <<mutex, threads, fills>>
vars == <<setVars, call, copyVars, threadVars, mark>>

\* The threads that share a built set.
Threads == 1..NThreads

\* A thread that is not inside a lookup.
Idle == [pc |-> "idle"]

\* SyntaxSetBuilder::new
NewBuilder == [syntaxes |-> <<>>, path_syntaxes |-> <<>>]

\* The paths find_syntax_by_path is asked for.
QueryPaths ==
    { <<"a">>, <<"b", "a">>, <<"P", "/", "a">>, <<"/", "b", "a">>,
      <<"/", "a">>, <<"P">>, <<>> }

\* A new builder; no set, no copy, no thread inside a lookup.
Fresh ==
    /\ builder = Some(NewBuilder)
    /\ syntax_set = None
    /\ origin = <<>>
    /\ built_from = None
    /\ previous = None
    /\ added = 0
    /\ builds = 0
    /\ call = None
    /\ copy = None
    /\ copied = None
    /\ dump = None
    /\ mutex = None
    /\ threads = [t \in Threads |-> Idle]
    /\ fills = 0

Init == Fresh /\ mark = None

\* SyntaxSetBuilder::add_syntax
AddSyntax(syntax) ==
    /\ builder # None
    /\ Len(builder[1].syntaxes) < MaxSyntaxes
    /\ builder' = Some([builder[1] EXCEPT !.syntaxes = PushSyntax(@, syntax)])
    /\ origin' = Append(origin, syntax)
    /\ added' = added + 1
    /\ UNCHANGED <<syntax_set, built_from, previous, builds, call>>
    /\ UNCHANGED <<copyVars, threadVars, mark>>

\* One iteration of the loop of SyntaxSetBuilder::load_syntaxes that finds a
\* .sublime-syntax file: its path is recorded with the index the syntax gets.
LoadSyntax(file) ==
    /\ builder # None
    /\ Len(builder[1].syntaxes) < MaxSyntaxes
    /\ builder' = Some(
          [syntaxes |-> PushSyntax(builder[1].syntaxes, file[2]),
           path_syntaxes |-> Append(builder[1].path_syntaxes,
                                    <<JoinSlash(file[1]), Len(builder[1].syntaxes)>>)])
    /\ origin' = Append(origin, file[2])
    /\ added' = added + 1
    /\ UNCHANGED <<syntax_set, built_from, previous, builds, call>>
    /\ UNCHANGED <<copyVars, threadVars, mark>>

\* SyntaxSetBuilder::build
Build ==
    /\ builder # None
    /\ builds < MaxBuilds
    /\ \E seed \in 0..(HashSeeds - 1) : syntax_set' = Some(build(builder[1], seed))
    /\ built_from' = builder
    /\ builder' = None
    /\ builds' = builds + 1
    /\ UNCHANGED <<origin, previous, added, call, copyVars, threadVars, mark>>

\* SyntaxSet::into_builder
IntoBuilder ==
    /\ syntax_set # None
    /\ builds < MaxBuilds
    /\ builder' = Some(into_builder(syntax_set[1]))
    /\ previous' = syntax_set
    /\ syntax_set' = None
    /\ added' = 0
    /\ call' = None
    /\ UNCHANGED <<origin, built_from, builds, copyVars, threadVars, mark>>

\* SyntaxSet::find_syntax_by_path
FindSyntaxByPath(path) ==
    /\ syntax_set # None
    /\ call' = Some([op |-> "find_syntax_by_path", arg |-> path,
                     result |-> find_syntax_by_path(syntax_set[1], path)])
    /\ UNCHANGED <<setVars, copyVars, threadVars, mark>>

\* The set a lookup is made on: the built set or its copy.
Targets == {"set", "copy"}
TargetSet(target) == IF target = "set" THEN syntax_set ELSE copy

\* The lookup locked the first-line cache of its set and leaves it as `cache`.
StoreCache(target, cache) ==
    /\ syntax_set' = IF target = "set"
                     THEN Some([syntax_set[1] EXCEPT !.first_line_cache = cache])
                     ELSE syntax_set
    /\ copy' = IF target = "copy"
               THEN Some([copy[1] EXCEPT !.first_line_cache = cache])
               ELSE copy

\* The tokens find_syntax_by_token is asked for.
QueryTokens ==
    { <<"r", "b">>, <<"R", "B">>, <<"R", "b">>, <<"r", "u", "b", "y">>,
      <<"R", "U", "B", "Y">>, <<"r">>, <<"b", "a", "d">>,
      <<"x", ".", "r", "b">>, <<"z", "z">>, <<>> }

\* The lines find_syntax_by_first_line is asked for.
QueryLines ==
    { <<"#", "!", "r", "b", "\n">>, <<" ", "r", "b">>, <<"#", "!", "r">>,
      <<"z", "\n", "#", "!", "r", "b">>, <<"(">>, <<>> }

\* The paths find_syntax_for_file is asked for.
QueryFiles ==
    { <<"d", "/", "x", ".", "r", "b">>, <<"d", "/", "z", ".", "r", "b">>,
      <<"r", "b">>, <<".", "r", "c">>, <<"d", ".", "r", "/", "z">>,
      <<"z", ".">>, <<"r", "b", "/", ".", ".">>, <<"r", "/">> }

\* What the file system may hold at a path.
FileStates ==
    { NoFile, Unreadable, TextFile(<<>>),
      TextFile(<<"#", "!", "r", "b", "\n", "z">>),
      TextFile(<<"z", "\n", "r", "b">>) }

\* SyntaxSet::find_syntax_by_token
FindSyntaxByToken(target, s) ==
    /\ TargetSet(target) # None
    /\ call' = Some([op |-> "find_syntax_by_token", on |-> target, arg |-> s,
                     result |-> find_syntax_by_token(TargetSet(target)[1], s)])
    /\ UNCHANGED <<setVars, copyVars, threadVars, mark>>

\* SyntaxSet::find_syntax_by_first_line, by the only thread that has the set.
FindSyntaxByFirstLine(target, s) ==
    /\ TargetSet(target) # None
    /\ LET found == find_syntax_by_first_line(TargetSet(target)[1], s)
       IN /\ call' = Some([op |-> "find_syntax_by_first_line", on |-> target,
                           arg |-> s, result |-> found.result])
          /\ StoreCache(target, found.first_line_cache)
    /\ UNCHANGED <<builder, origin, built_from, previous, added, builds>>
    /\ UNCHANGED <<copied, dump, threadVars, mark>>

\* SyntaxSet::find_syntax_for_file, by the only thread that has the set.
FindSyntaxForFile(target, path, file) ==
    /\ TargetSet(target) # None
    /\ LET found == find_syntax_for_file(TargetSet(target)[1], path, file)
       IN /\ call' = Some([op |-> "find_syntax_for_file", on |-> target,
                           arg |-> path, file |-> file,
                           opened |-> found.opened, result |-> found.result])
          /\ StoreCache(target, found.first_line_cache)
    /\ UNCHANGED <<builder, origin, built_from, previous, added, builds>>
    /\ UNCHANGED <<copied, dump, threadVars, mark>>

\* The first-line cache of the built set (the value the Mutex guards).
Cache == syntax_set[1].first_line_cache

\* The built set with its guarded cache replaced.
SetWithCache(cache) == Some([syntax_set[1] EXCEPT !.first_line_cache = cache])

\* A faulty variant of TryLock: the lock is taken whoever holds it.
TryLock_Unguarded(holder) == TRUE

\* Mutex::lock returns once no thread holds the lock.
TryLock(holder) == holder = None

\* The definitions, lines and extension of the lookups that threads make on
\* a shared set.
ThreadDefinitions == {syntax_ruby, syntax_rb, syntax_bad}
ThreadLines == { <<"#", "!", "r", "b", "\n">>, <<" ", "r", "b">> }
ThreadExtensions == { <<"r">> }

\* A thread calls find_syntax_by_first_line(s) on the shared set.
CallFindSyntaxByFirstLine(t, s) ==
    /\ syntax_set # None
    /\ threads[t].pc = "idle"
    /\ threads' = [threads EXCEPT ![t] = [pc |-> "lock", arg |-> s]]
    /\ UNCHANGED <<setVars, call, copyVars, mutex, fills, mark>>

\* self.first_line_cache.lock().unwrap()
Lock(t) ==
    /\ threads[t].pc = "lock"
    /\ TryLock(mutex)
    /\ mutex' = Some(t)
    /\ threads' = [threads EXCEPT ![t].pc = "ensure_filled"]
    /\ UNCHANGED <<setVars, call, copyVars, fills, mark>>

\* The test at the top of ensure_filled and, when it fails, the slice the
\* loop goes over.
EnsureFilled(t) ==
    /\ threads[t].pc = "ensure_filled"
    /\ IF Cache.cached_until >= Len(syntax_set[1].syntaxes)
       THEN /\ threads' = [threads EXCEPT ![t].pc = "scan"]
            /\ fills' = fills
       ELSE /\ threads' = [threads EXCEPT ![t] =
                    [pc |-> "fill", arg |-> threads[t].arg, i |-> 0,
                     slice |-> UncachedSlice(Cache, syntax_set[1].syntaxes)]]
            /\ fills' = fills + 1
    /\ UNCHANGED <<setVars, call, copyVars, mutex, mark>>

\* One iteration of the loop of ensure_filled.
FillStep(t) ==
    /\ threads[t].pc = "fill"
    /\ threads[t].i < Len(threads[t].slice)
    /\ syntax_set' = SetWithCache(
            [Cache EXCEPT !.regexes =
                FillOne(@, threads[t].slice[threads[t].i + 1], threads[t].i)])
    /\ threads' = [threads EXCEPT ![t].i = @ + 1]
    /\ UNCHANGED <<builder, origin, built_from, previous, added, builds>>
    /\ UNCHANGED <<call, copyVars, mutex, fills, mark>>

\* self.cached_until = syntaxes.len()
SetCachedUntil(t) ==
    /\ threads[t].pc = "fill"
    /\ threads[t].i >= Len(threads[t].slice)
    /\ syntax_set' = SetWithCache(
            [Cache EXCEPT !.cached_until = Len(syntax_set[1].syntaxes)])
    /\ threads' = [threads EXCEPT ![t] = [pc |-> "scan", arg |-> threads[t].arg]]
    /\ UNCHANGED <<builder, origin, built_from, previous, added, builds>>
    /\ UNCHANGED <<call, copyVars, mutex, fills, mark>>

\* The loop over cache.regexes and the return, which drops the lock guard.
Scan(t) ==
    /\ threads[t].pc = "scan"
    /\ threads' = [threads EXCEPT ![t] =
            [pc |-> "done", op |-> "find_syntax_by_first_line",
             arg |-> threads[t].arg,
             result |-> FirstFinding(Cache.regexes, threads[t].arg)]]
    /\ mutex' = None
    /\ UNCHANGED <<setVars, call, copyVars, fills, mark>>

\* A thread calls find_syntax_by_extension on the shared set, which takes
\* no lock.
ThreadFindSyntaxByExtension(t, ext) ==
    /\ syntax_set # None
    /\ threads[t].pc = "idle"
    /\ threads' = [threads EXCEPT ![t] =
            [pc |-> "done", op |-> "find_syntax_by_extension", arg |-> ext,
             result |-> find_syntax_by_extension(syntax_set[1], ext)]]
    /\ UNCHANGED <<setVars, call, copyVars, mutex, fills, mark>>

\* The thread has used the result of its lookup.
Return(t) ==
    /\ threads[t].pc = "done"
    /\ threads' = [threads EXCEPT ![t] = Idle]
    /\ UNCHANGED <<setVars, call, copyVars, mutex, fills, mark>>

\* SyntaxSet::find_syntax_by_extension
FindSyntaxByExtension(target, ext) ==
    /\ TargetSet(target) # None
    /\ call' = Some([op |-> "find_syntax_by_extension", on |-> target, arg |-> ext,
                     result |-> find_syntax_by_extension(TargetSet(target)[1], ext)])
    /\ UNCHANGED <<setVars, copyVars, threadVars, mark>>

\* The definitions, the file, the lines and the extensions of the lookups on
\* a set and its copy.
CopyDefinitions == {syntax_ruby, syntax_b}
CopyFiles == { <<<< <<"P">>, <<"r", "b">> >>, syntax_rb>> }
CopyLines == { <<"#", "!", "r", "b", "\n">>, <<" ", "r", "b">> }
CopyExtensions == { <<"r">>, <<"b">> }

\* syntax_set.clone()
Clone ==
    /\ syntax_set # None
    /\ copy = None
    /\ copy' = Some(clone(syntax_set[1]))
    /\ copied' = Some([how |-> "clone", set |-> syntax_set[1]])
    /\ call' = Some([op |-> "clone", on |-> "copy"])
    /\ UNCHANGED <<setVars, dump, threadVars, mark>>

\* The set goes out of scope while its copy lives on.
Drop ==
    /\ syntax_set # None
    /\ copy # None
    /\ syntax_set' = None
    /\ call' = None
    /\ UNCHANGED <<builder, origin, built_from, previous, added, builds>>
    /\ UNCHANGED <<copyVars, threadVars, mark>>

\* The set is serialized.
Serialize ==
    /\ syntax_set # None
    /\ dump = None
    /\ dump' = Some(serialize(syntax_set[1]))
    /\ copied' = Some([how |-> "dump", set |-> syntax_set[1]])
    /\ call' = None
    /\ UNCHANGED <<setVars, copy, threadVars, mark>>

\* A set is deserialized from what was serialized.
Deserialize ==
    /\ dump # None
    /\ copy = None
    /\ copy' = Some(deserialize(dump[1]))
    /\ call' = Some([op |-> "deserialize", on |-> "copy"])
    /\ UNCHANGED <<setVars, copied, dump, threadVars, mark>>

\* The context names of the syntaxes the traversal is followed on.
GraphNames == {"prototype", "main", "comments"}

\* A syntax whose context `name` refers to the contexts edges[name]: to
\* itself and to the prototype context by an include, to others by a push.
GraphSyntax(edges) ==
    [name |-> "G", file_extensions |-> <<>>, scope |-> "source.g",
     first_line_match |-> None, hidden |-> FALSE, variables |-> <<>>,
     contexts |->
        [name \in GraphNames |->
            Context(TRUE,
                [i \in DOMAIN SetToSeq(edges[name]) |->
                    LET to == SetToSeq(edges[name])[i]
                    IN IF to = name \/ to = "prototype"
                       THEN Include(Named(to))
                       ELSE Match(Push(<<Named(to)>>), None)])]]

\* The definitions the traversal is followed on: every way the three
\* contexts can refer to each other, and the two definitions with inline and
\* missing references.
MarkDefinitions ==
    {GraphSyntax(edges) : edges \in [GraphNames -> SUBSET GraphNames]}
        \cup {syntax_p, syntax_q}

\* A faulty variant of FirstTime: every insertion counts as the first.
FirstTime_Always(no_prototype, context_id) == TRUE

\* let first_time = no_prototype.insert(context_id);
FirstTime(no_prototype, context_id) == context_id \notin no_prototype

\* The call frame on top of the stack of the traversal.
TopFrame == mark[1].stack[Len(mark[1].stack)]

\* The stack with its top frame replaced.
ReplaceTop(frame) == [mark[1].stack EXCEPT ![Len(mark[1].stack)] = frame]

\* build() has assigned the ids of one syntax and calls
\* recursively_mark_no_prototype for its prototype context.
MarkCall(definition) ==
    LET assigned == AssignContexts(<<definition>>, 0, <<>>, <<>>)
    IN Some([syntax |-> assigned.syntaxes[1],
             contexts |-> assigned.all_contexts,
             stack |-> <<[context_id |-> assigned.syntaxes[1].contexts["prototype"],
                          at |-> "insert"]>>,
             no_prototype |-> {},
             inserted |-> <<>>,
             done |-> FALSE])

\* The state in which build() makes that call for one of the definitions.
InitMark == Fresh /\ \E definition \in MarkDefinitions : mark = MarkCall(definition)

\* no_prototype.insert(context_id), and the return when the id was there.
MarkInsert ==
    /\ mark # None
    /\ mark[1].stack # <<>>
    /\ TopFrame.at = "insert"
    /\ IF FirstTime(mark[1].no_prototype, TopFrame.context_id)
       THEN mark' = Some(
                [mark[1] EXCEPT
                    !.no_prototype = @ \cup {TopFrame.context_id},
                    !.inserted = Append(@, TopFrame.context_id),
                    !.stack = ReplaceTop(
                        [context_id |-> TopFrame.context_id, at |-> "patterns",
                         names |-> FollowedOfPatterns(
                            mark[1].contexts[TopFrame.context_id + 1].patterns)])])
       ELSE mark' = Some(
                [mark[1] EXCEPT !.stack = SubSeq(@, 1, Len(@) - 1)])
    /\ UNCHANGED <<setVars, call, copyVars, threadVars>>

\* The next followed reference of the loop over the patterns: the recursive
\* call when the name is a context of the syntax.
MarkFollow ==
    /\ mark # None
    /\ mark[1].stack # <<>>
    /\ TopFrame.at = "patterns"
    /\ TopFrame.names # <<>>
    /\ LET i == Get(mark[1].syntax.contexts, Head(TopFrame.names))
           rest == ReplaceTop([TopFrame EXCEPT !.names = Tail(@)])
       IN mark' = Some(
            [mark[1] EXCEPT
                !.stack = IF i # None
                          THEN Append(rest, [context_id |-> i[1], at |-> "insert"])
                          ELSE rest])
    /\ UNCHANGED <<setVars, call, copyVars, threadVars>>

\* The loop over the patterns is over: the call returns.
MarkReturn ==
    /\ mark # None
    /\ mark[1].stack # <<>>
    /\ TopFrame.at = "patterns"
    /\ TopFrame.names = <<>>
    /\ mark' = Some([mark[1] EXCEPT !.stack = SubSeq(@, 1, Len(@) - 1)])
    /\ UNCHANGED <<setVars, call, copyVars, threadVars>>

\* The outermost call has returned to build().
MarkDone ==
    /\ mark # None
    /\ mark[1].stack = <<>>
    /\ ~mark[1].done
    /\ mark' = Some([mark[1] EXCEPT !.done = TRUE])
    /\ UNCHANGED <<setVars, call, copyVars, threadVars>>

Next ==
    \/ \E syntax \in Definitions : AddSyntax(syntax)
    \/ \E file \in ContextlessFiles : LoadSyntax(file)
    \/ Build
    \/ IntoBuilder

Spec == Init /\ [][Next]_vars

\* The lookups on sets built from loaded files and the plain syntax_b.
NextLookup ==
    \/ AddSyntax(syntax_b)
    \/ \E file \in SyntaxFiles : LoadSyntax(file)
    \/ Build
    \/ IntoBuilder
    \/ \E path \in QueryPaths : FindSyntaxByPath(path)

SpecLookup == Init /\ [][NextLookup]_vars

\* The lookups by token on sets built from the contextless definitions.
NextToken ==
    \/ \E syntax \in LookupDefinitions : AddSyntax(syntax)
    \/ Build
    \/ \E s \in QueryTokens : FindSyntaxByToken("set", s)

SpecToken == Init /\ [][NextToken]_vars

\* The lookups by first line and for a file on such sets.
NextFirstLine ==
    \/ \E syntax \in LookupDefinitions : AddSyntax(syntax)
    \/ Build
    \/ \E s \in QueryLines : FindSyntaxByFirstLine("set", s)
    \/ \E path \in QueryFiles : \E file \in FileStates :
            FindSyntaxForFile("set", path, file)

SpecFirstLine == Init /\ [][NextFirstLine]_vars

\* Threads that share a built set and look syntaxes up in it.
NextThreads ==
    \/ \E syntax \in ThreadDefinitions : AddSyntax(syntax)
    \/ Build
    \/ \E t \in Threads :
        \/ \E s \in ThreadLines : CallFindSyntaxByFirstLine(t, s)
        \/ Lock(t)
        \/ EnsureFilled(t)
        \/ FillStep(t)
        \/ SetCachedUntil(t)
        \/ Scan(t)
        \/ \E ext \in ThreadExtensions : ThreadFindSyntaxByExtension(t, ext)
        \/ Return(t)

SpecThreads == Init /\ [][NextThreads]_vars

\* A set, its clone, and the lookups on both.
NextClone ==
    \/ \E syntax \in CopyDefinitions : AddSyntax(syntax)
    \/ \E file \in CopyFiles : LoadSyntax(file)
    \/ Build
    \/ Clone
    \/ Drop
    \/ \E target \in Targets :
        \/ \E s \in CopyLines : FindSyntaxByFirstLine(target, s)
        \/ \E ext \in CopyExtensions : FindSyntaxByExtension(target, ext)

SpecClone == Init /\ [][NextClone]_vars

\* A set, what it is serialized to, the set deserialized from that, and the
\* lookups on both sets.
NextDump ==
    \/ \E syntax \in CopyDefinitions : AddSyntax(syntax)
    \/ \E file \in CopyFiles : LoadSyntax(file)
    \/ Build
    \/ Serialize
    \/ Deserialize
    \/ \E target \in Targets :
        \/ \E s \in CopyLines : FindSyntaxByFirstLine(target, s)
        \/ \E ext \in CopyExtensions : FindSyntaxByExtension(target, ext)

SpecDump == Init /\ [][NextDump]_vars

\* The traversal of recursively_mark_no_prototype, call by call.  The code is
\* sequential: a step that can be taken is taken.
NextMark ==
    \/ MarkInsert
    \/ MarkFollow
    \/ MarkReturn
    \/ MarkDone

SpecMark == InitMark /\ [][NextMark]_vars /\ WF_vars(NextMark)

\* ------------------------------------------------------- properties -----

IsSet == syntax_set # None

\* The fields of the built set (meaningful while IsSet).
syntaxes == syntax_set[1].syntaxes
contexts == syntax_set[1].contexts
path_syntaxes == syntax_set[1].path_syntaxes

\* SyntaxSet::get_context
get_context(context_id) == contexts[context_id + 1]

\* The references of one pattern, in the order link_context visits them.
PatternRefs(pattern) ==
    IF pattern.kind = "Include" THEN <<pattern.ref>>
    ELSE (IF pattern.operation.op \in {"Push", "Set"}
          THEN pattern.operation.context_refs ELSE <<>>) \o pattern.with_prototype

\* The positions <<pattern, reference>> of the references of a context.
RefSlots(context) ==
    UNION {{<<j, r>> : r \in DOMAIN PatternRefs(context.patterns[j])} :
                j \in DOMAIN context.patterns}

RefAt(context, slot) == PatternRefs(context.patterns[slot[1]])[slot[2]]

\* Every reference that occurs in a context.
RefsOf(context) == {RefAt(context, slot) : slot \in RefSlots(context)}

\* A pattern with its references blanked: what linking must leave alone.
PatternShape(pattern) ==
    IF pattern.kind = "Include" THEN <<"Include">>
    ELSE <<"Match", pattern.operation.op,
           Len(PatternRefs(pattern)), pattern.with_prototype # None>>

ContextShape(context) ==
    <<context.meta_include_prototype,
      [j \in DOMAIN context.patterns |-> PatternShape(context.patterns[j])]>>

ValidContextId(context_id) == context_id \in 0..(Len(contexts) - 1)

\* C1: in every built set, whatever sequence of build / into_builder /
\* add_syntax led to it, every ContextId in a syntax's contexts map, in a
\* context's prototype field and in a Direct reference of a pattern is a
\* valid index into the contexts vector.
C1_ContextIdsValid ==
    IsSet =>
        /\ \A k \in DOMAIN syntaxes : \A n \in DOMAIN syntaxes[k].contexts :
                ValidContextId(syntaxes[k].contexts[n])
        /\ \A i \in DOMAIN contexts :
            /\ contexts[i].prototype # None =>
                    ValidContextId(contexts[i].prototype[1])
            /\ \A context_ref \in RefsOf(contexts[i]) :
                    context_ref.t = "Direct" => ValidContextId(context_ref.id)

\* A set rebuilt after syntaxes were added, holding Direct references and
\* prototype fields.
C1_Witness ==
    /\ IsSet
    /\ builds = 2
    /\ added > 0
    /\ \E i \in DOMAIN contexts :
        /\ contexts[i].prototype # None
        /\ \E context_ref \in RefsOf(contexts[i]) : context_ref.t = "Direct"

\* The local edges of the claimed no-propagation closure, read off an
\* unlinked definition: Push/Set to a Named or Inline name, Include of a
\* Named name, the name being a context of the same definition.
LocalEdge(definition, from, to) ==
    /\ to \in DOMAIN definition.contexts
    /\ \E j \in DOMAIN definition.contexts[from].patterns :
        LET pattern == definition.contexts[from].patterns[j]
        IN \/ /\ pattern.kind = "Match"
              /\ pattern.operation.op \in {"Push", "Set"}
              /\ \E r \in DOMAIN pattern.operation.context_refs :
                    /\ pattern.operation.context_refs[r].t \in {"Named", "Inline"}
                    /\ pattern.operation.context_refs[r].s = to
           \/ /\ pattern.kind = "Include"
              /\ pattern.ref.t = "Named"
              /\ pattern.ref.s = to

RECURSIVE Closure(_, _)
Closure(definition, reached) ==
    LET more == reached \cup
                  {to \in DOMAIN definition.contexts :
                        \E from \in reached : LocalEdge(definition, from, to)}
    IN IF more = reached THEN reached ELSE Closure(definition, more)

\* The names of the contexts reachable from the prototype context.
NoPropagation(definition) ==
    IF "prototype" \in DOMAIN definition.contexts
    THEN Closure(definition, {"prototype"})
    ELSE {}

\* The syntaxes of the set that the latest build() got as unlinked definitions.
FreshSyntaxes ==
    {k \in DOMAIN syntaxes : previous = None \/ k > Len(previous[1].syntaxes)}

ContextOf(k, name) == get_context(syntaxes[k].contexts[name])

\* C2: after build() of unlinked definitions, in every syntax that has a
\* prototype context, the prototype context and every context reachable from
\* it over local Push/Set (Named, Inline) and Include (Named) edges has its
\* prototype field unset.
C2_NoPrototypeInClosure ==
    IsSet =>
        \A k \in FreshSyntaxes : \A n \in NoPropagation(origin[k]) :
            ContextOf(k, n).prototype = None

\* syntax_p was built: its comments context is reached through an Include
\* and a cycle, and its main context, outside the closure, has the prototype.
C2_Witness ==
    /\ IsSet
    /\ \E k \in FreshSyntaxes :
        /\ origin[k] = syntax_p
        /\ {"prototype", "comments", "#anon_0"} \subseteq NoPropagation(origin[k])
        /\ "#anon_1" \notin NoPropagation(origin[k])
        /\ ContextOf(k, "comments").prototype = None
        /\ ContextOf(k, "main").prototype # None

\* C3: after build(), in every syntax that has a prototype context, every
\* context outside the no-propagation set with meta_include_prototype = true
\* has its prototype field set to the id of that syntax's prototype context.
C3_PrototypeAttached ==
    IsSet =>
        \A k \in DOMAIN syntaxes :
            "prototype" \in DOMAIN syntaxes[k].contexts =>
                \A n \in (DOMAIN syntaxes[k].contexts) \ NoPropagation(origin[k]) :
                    ContextOf(k, n).meta_include_prototype =>
                        ContextOf(k, n).prototype =
                            Some(syntaxes[k].contexts["prototype"])

\* Two syntaxes with a prototype in one set, each propagating its own.
C3_Witness ==
    /\ IsSet
    /\ \E k1, k2 \in DOMAIN syntaxes :
        /\ k1 < k2
        /\ origin[k1] = syntax_q
        /\ origin[k2] = syntax_p
        /\ ContextOf(k1, "$top_level_main").prototype =
                Some(syntaxes[k1].contexts["prototype"])
        /\ ContextOf(k2, "main").prototype = Some(syntaxes[k2].contexts["prototype"])
        /\ ContextOf(k2, "off").prototype = None

\* The set has been rebuilt from a builder that an earlier set was turned into.
IsRebuilt == IsSet /\ previous # None

\* C4: build() is idempotent across a round trip: build(into_builder(set))
\* without additions gives the syntaxes, the path table and, for every
\* ContextId, the context of the set it was made from.
C4_RoundTripEquivalent ==
    (IsRebuilt /\ added = 0) =>
        /\ syntaxes = previous[1].syntaxes
        /\ path_syntaxes = previous[1].path_syntaxes
        /\ Len(contexts) = Len(previous[1].contexts)
        /\ \A i \in DOMAIN previous[1].contexts :
                get_context(i - 1) = previous[1].contexts[i]

\* The part of C4 the code keeps: syntaxes, path table and, for every
\* ContextId, everything of the context except its prototype field.
C4_RoundTripUpToPrototype ==
    (IsRebuilt /\ added = 0) =>
        /\ syntaxes = previous[1].syntaxes
        /\ path_syntaxes = previous[1].path_syntaxes
        /\ Len(contexts) = Len(previous[1].contexts)
        /\ \A i \in DOMAIN previous[1].contexts :
                /\ get_context(i - 1).patterns = previous[1].contexts[i].patterns
                /\ get_context(i - 1).meta_include_prototype =
                        previous[1].contexts[i].meta_include_prototype

\* The ContextIds of the contexts of syntax k.
IdsOf(k) == Range(syntaxes[k].contexts)

\* The syntax among `among` that a ByScope or File reference designates: the
\* first in insertion order with that scope, or with that display name.
Designated(context_ref, among) ==
    {k \in among :
        /\ \/ context_ref.t = "ByScope" /\ syntaxes[k].scope = context_ref.scope
           \/ context_ref.t = "File" /\ syntaxes[k].name = context_ref.name
        /\ \A j \in among :
                j < k =>
                    ~ \/ context_ref.t = "ByScope" /\ syntaxes[j].scope = context_ref.scope
                      \/ context_ref.t = "File" /\ syntaxes[j].name = context_ref.name}

\* The context name a ByScope or File reference asks for.
SubContextName(context_ref) ==
    IF Len(context_ref.sub_context) = 0 THEN "main" ELSE context_ref.sub_context[1]

\* C5: after build(), into_builder(), any number of add_syntax calls and
\* build(), every context of the first set has the ContextId it had, the
\* contexts of the added syntaxes have later ids, every Direct reference the
\* first build wrote is unchanged, and the references of the added syntaxes
\* into earlier syntaxes are resolved to the earlier ids.
C5_HandlesStable ==
    IsRebuilt =>
        LET old == previous[1] IN
        /\ Len(syntaxes) = Len(old.syntaxes) + added
        /\ \A k \in DOMAIN old.syntaxes :
            /\ syntaxes[k].name = old.syntaxes[k].name
            /\ syntaxes[k].contexts = old.syntaxes[k].contexts
        /\ \A i \in DOMAIN old.contexts :
            /\ i \in DOMAIN contexts
            /\ ContextShape(contexts[i]) = ContextShape(old.contexts[i])
            /\ \A slot \in RefSlots(old.contexts[i]) :
                    RefAt(old.contexts[i], slot).t = "Direct" =>
                        RefAt(contexts[i], slot) = RefAt(old.contexts[i], slot)
        /\ \A k \in (DOMAIN syntaxes) \ (DOMAIN old.syntaxes) :
            /\ \A id \in IdsOf(k) : id >= Len(old.contexts)
            /\ \A n \in DOMAIN origin[k].contexts :
                \A slot \in RefSlots(origin[k].contexts[n]) :
                    LET context_ref == RefAt(origin[k].contexts[n], slot)
                    IN \A j \in Designated(context_ref, DOMAIN syntaxes) :
                        (/\ j \in DOMAIN old.syntaxes
                         /\ SubContextName(context_ref) \in DOMAIN old.syntaxes[j].contexts)
                        => RefAt(ContextOf(k, n), slot) =
                              Direct(old.syntaxes[j].contexts[SubContextName(context_ref)])

\* A rebuilt set with an added syntax one of whose references is resolved to
\* a context of the first set, which itself held Direct references.
C5_Witness ==
    /\ IsRebuilt
    /\ added > 0
    /\ \E i \in DOMAIN previous[1].contexts :
            \E context_ref \in RefsOf(previous[1].contexts[i]) : context_ref.t = "Direct"
    /\ \E k \in (DOMAIN syntaxes) \ (DOMAIN previous[1].syntaxes) :
        \E n \in DOMAIN origin[k].contexts :
            \E slot \in RefSlots(origin[k].contexts[n]) :
                /\ RefAt(origin[k].contexts[n], slot).t = "ByScope"
                /\ RefAt(ContextOf(k, n), slot).t = "Direct"
                /\ RefAt(ContextOf(k, n), slot).id < Len(previous[1].contexts)

\* The context the latest build() was given under name n of syntax k.
InputContext(k, n) == built_from[1].syntaxes[k].contexts[n]

\* All <<syntax, context name, slot>> positions of references in the set.
SlotsOfSyntax(k) ==
    UNION {{<<k, n, slot>> : slot \in RefSlots(InputContext(k, n))} :
                n \in DOMAIN built_from[1].syntaxes[k].contexts}

AllSlots == UNION {SlotsOfSyntax(k) : k \in DOMAIN built_from[1].syntaxes}

InputRef(pos) == RefAt(InputContext(pos[1], pos[2]), pos[3])
OutputRef(pos) == RefAt(ContextOf(pos[1], pos[2]), pos[3])

\* id is the handle of the context that syntax j defines under `name`.
IsContextNamed(id, j, name) ==
    /\ name \in DOMAIN syntaxes[j].contexts
    /\ syntaxes[j].contexts[name] = id
    /\ ValidContextId(id)
    /\ ContextShape(get_context(id)) = ContextShape(InputContext(j, name))

\* C6: build() rewrites a ByScope reference to Direct(id), id being the
\* context named sub_context ("main" when absent) of the first syntax in
\* insertion order whose scope equals the reference's scope, and a File
\* reference likewise by display name, whether the target syntax comes
\* before or after the referring one.
C6_CrossSyntaxLinked ==
    IsSet =>
        \A pos \in AllSlots :
            InputRef(pos).t \in {"ByScope", "File"} =>
                \A j \in Designated(InputRef(pos), DOMAIN syntaxes) :
                    SubContextName(InputRef(pos)) \in DOMAIN syntaxes[j].contexts =>
                        /\ OutputRef(pos).t = "Direct"
                        /\ IsContextNamed(OutputRef(pos).id, j,
                                          SubContextName(InputRef(pos)))

\* A set where a ByScope reference is resolved to a later syntax although a
\* still later syntax has the same scope, and a File reference is resolved to
\* an earlier syntax.
C6_Witness ==
    /\ IsSet
    /\ \E pos \in AllSlots :
        /\ InputRef(pos).t = "ByScope"
        /\ OutputRef(pos).t = "Direct"
        /\ \E j, j2 \in DOMAIN syntaxes :
            /\ pos[1] < j /\ j < j2
            /\ syntaxes[j].scope = InputRef(pos).scope
            /\ syntaxes[j2].scope = InputRef(pos).scope
            /\ OutputRef(pos).id \in IdsOf(j)
    /\ \E pos \in AllSlots :
        /\ InputRef(pos).t = "File"
        /\ OutputRef(pos).t = "Direct"
        /\ \E j \in DOMAIN syntaxes : j < pos[1] /\ OutputRef(pos).id \in IdsOf(j)

\* The context name a Named or Inline reference stands for.
LocalTarget(context_ref) ==
    IF context_ref.s = "$top_level_main" THEN "main" ELSE context_ref.s

\* C7: build() rewrites every Named(s) or Inline(s) reference, in an Include,
\* a Push/Set list or a with_prototype slot, to Direct(id), id being the
\* context named s of the syntax that owns the referring context;
\* "$top_level_main" stands for that syntax's main context.
C7_LocalLinked ==
    IsSet =>
        \A pos \in AllSlots :
            (/\ InputRef(pos).t \in {"Named", "Inline"}
             /\ LocalTarget(InputRef(pos)) \in DOMAIN syntaxes[pos[1]].contexts) =>
                    /\ OutputRef(pos).t = "Direct"
                    /\ IsContextNamed(OutputRef(pos).id, pos[1],
                                      LocalTarget(InputRef(pos)))

\* syntax_q after syntax_p, both with main and prototype contexts: in
\* syntax_q "$top_level_main" is linked to its main although it has a context
\* of that very name, and in syntax_p a with_prototype slot is linked.
C7_Witness ==
    /\ IsSet
    /\ \E k1, k2 \in DOMAIN syntaxes :
        /\ k1 < k2
        /\ origin[k1] = syntax_p
        /\ origin[k2] = syntax_q
        /\ ContextOf(k2, "$top_level_main").patterns[1].ref =
                Direct(syntaxes[k2].contexts["main"])
        /\ ContextOf(k2, "prototype").patterns[1].operation.context_refs[1] =
                Direct(syntaxes[k2].contexts["main"])
        /\ ContextOf(k1, "prototype").patterns[2].with_prototype =
                Some(Direct(syntaxes[k1].contexts["main"]))
        /\ ContextOf(k1, "prototype").patterns[2].operation.context_refs[1] =
                Direct(syntaxes[k1].contexts["#anon_0"])

\* The target of a reference cannot be found: the context name is unknown in
\* the owning syntax, or no syntax has the scope or display name, or the
\* designated syntax lacks the sub_context.
TargetMissing(context_ref, k) ==
    IF context_ref.t \in {"Named", "Inline"}
    THEN LocalTarget(context_ref) \notin DOMAIN syntaxes[k].contexts
    ELSE /\ context_ref.t \in {"ByScope", "File"}
         /\ \A j \in Designated(context_ref, DOMAIN syntaxes) :
                SubContextName(context_ref) \notin DOMAIN syntaxes[j].contexts

\* The number of contexts the definitions of the builder hold.
RECURSIVE CountContexts(_)
CountContexts(syntax_definitions) ==
    IF syntax_definitions = <<>> THEN 0
    ELSE Cardinality(DOMAIN Head(syntax_definitions).contexts)
            + CountContexts(Tail(syntax_definitions))

BuilderContextCount == CountContexts(builder[1].syntaxes)

\* C8: build() never fails and is tolerant: it returns a set for every
\* builder; a reference whose target cannot be found and a Direct reference
\* present on input are left as they were; no pattern is added, removed or
\* reordered.
C8_Tolerant ==
    /\ builder # None =>
            \A seed \in 0..(HashSeeds - 1) :
                LET built == build(builder[1], seed)
                IN /\ Len(built.syntaxes) = Len(builder[1].syntaxes)
                   /\ Len(built.contexts) = BuilderContextCount
    /\ IsSet =>
        /\ Len(syntaxes) = Len(built_from[1].syntaxes)
        /\ \A k \in DOMAIN syntaxes :
            /\ DOMAIN syntaxes[k].contexts = DOMAIN built_from[1].syntaxes[k].contexts
            /\ \A n \in DOMAIN syntaxes[k].contexts :
                /\ ValidContextId(syntaxes[k].contexts[n])
                /\ ContextShape(ContextOf(k, n)) = ContextShape(InputContext(k, n))
        /\ \A pos \in AllSlots :
            (InputRef(pos).t = "Direct" \/ TargetMissing(InputRef(pos), pos[1]))
                => OutputRef(pos) = InputRef(pos)

\* A rebuilt set whose input held Direct references and which still holds an
\* unresolved reference of each kind.
C8_Witness ==
    /\ IsSet
    /\ builds = 2
    /\ \E pos \in AllSlots : InputRef(pos).t = "Direct"
    /\ \A t \in {"Named", "ByScope", "File"} :
        \E pos \in AllSlots :
            /\ InputRef(pos).t = t
            /\ TargetMissing(InputRef(pos), pos[1])
            /\ OutputRef(pos) = InputRef(pos)

\* a < b byte-lexicographically: a is a proper prefix of b, or at the first
\* position where they differ a has the smaller byte.
LexLess(a, b) ==
    \/ /\ Len(a) < Len(b)
       /\ \A i \in 1..Len(a) : a[i] = b[i]
    \/ \E i \in 1..Len(a) :
        /\ i <= Len(b)
        /\ a[i] < b[i]
        /\ \A j \in 1..(i - 1) : a[j] = b[j]

\* The number of contexts of the syntaxes before syntax k.
RECURSIVE ContextsBefore(_)
ContextsBefore(k) ==
    IF k <= 1 THEN 0
    ELSE ContextsBefore(k - 1) + Cardinality(DOMAIN syntaxes[k - 1].contexts)

\* C9: build() lays the contexts out syntax by syntax in insertion order
\* and, within a syntax, in ascending byte-lexicographic order of context
\* name, with consecutive ContextIds starting at 0; the result does not
\* depend on the iteration order of the per-syntax context maps.
C9_DeterministicLayout ==
    IsSet =>
        /\ Len(contexts) = ContextsBefore(Len(syntaxes) + 1)
        /\ \A k \in DOMAIN syntaxes : \A n \in DOMAIN syntaxes[k].contexts :
            /\ syntaxes[k].contexts[n] =
                    ContextsBefore(k) +
                    Cardinality({m \in DOMAIN syntaxes[k].contexts :
                                    LexLess(NameBytes(m), NameBytes(n))})
            /\ ContextShape(ContextOf(k, n)) = ContextShape(InputContext(k, n))
        /\ \A seed \in 0..(HashSeeds - 1) : build(built_from[1], seed) = syntax_set[1]

\* A set of several syntaxes one of which has at least three contexts that
\* its map yields in two different orders, neither of them sorted.
C9_Witness ==
    /\ IsSet
    /\ Len(syntaxes) >= 2
    /\ \E k \in DOMAIN syntaxes :
        LET map == built_from[1].syntaxes[k].contexts
        IN /\ k > 1
           /\ Cardinality(DOMAIN map) >= 3
           /\ IntoIter(map, 0) # IntoIter(map, 1)
           /\ SortByName(IntoIter(map, 0)) # IntoIter(map, 0)
           /\ SortByName(IntoIter(map, 1)) # IntoIter(map, 1)

\* The recorded path equals the asked path, or ends with it right after a "/".
MatchesAtSlash(recorded, path) ==
    \/ recorded = path
    \/ /\ Len(recorded) > Len(path)
       /\ recorded[Len(recorded) - Len(path)] = "/"
       /\ \A i \in 1..Len(path) : recorded[Len(recorded) - Len(path) + i] = path[i]

\* The entries of the path table that the asked path designates.
MatchingEntries(path) ==
    {i \in DOMAIN path_syntaxes : MatchesAtSlash(path_syntaxes[i][1], path)}

\* C10: find_syntax_by_path(p) returns a syntax if and only if some recorded
\* path equals p or ends with "/" + p, and then the syntax recorded for the
\* first such entry; a recorded path that ends with p without a "/" before
\* that suffix does not match.
C10_FindByPath ==
    (IsSet /\ call # None /\ call[1].op = "find_syntax_by_path") =>
        LET entries == MatchingEntries(call[1].arg)
        IN /\ (call[1].result # None) <=> (entries # {})
           /\ entries # {} =>
                LET first == CHOOSE i \in entries : \A j \in entries : i <= j
                IN /\ call[1].result = Some(path_syntaxes[first][2])
                   /\ call[1].result[1] + 1 \in DOMAIN syntaxes

\* The first recorded path ends with the asked path without a "/" before it
\* and is passed over; the second one matches after a "/" and its syntax,
\* which is not at the entry's position in the table, is returned.  Another
\* lookup on such a table finds nothing.
C10_Witness ==
    /\ IsSet
    /\ call # None
    /\ call[1].op = "find_syntax_by_path"
    /\ Len(path_syntaxes) = 2
    /\ EndsWith(path_syntaxes[1][1], call[1].arg)
    /\ path_syntaxes[1][1] # call[1].arg
    /\ MatchingEntries(call[1].arg) = {2}
    /\ call[1].result = Some(2)
    /\ find_syntax_by_path(syntax_set[1], <<"/", "b", "a">>) = None
    /\ find_syntax_by_path(syntax_set[1], JoinSlash(<< <<"P">>, <<"b", "a">> >>)) = Some(1)

\* C18: re-linking keeps the prototype exclusion: in a set rebuilt from
\* into_builder's builder, with or without added syntaxes, every context the
\* earlier build left without a prototype still has no prototype.
C18_PrototypeExclusionKept ==
    IsRebuilt =>
        \A i \in DOMAIN previous[1].contexts :
            previous[1].contexts[i].prototype = None =>
                get_context(i - 1).prototype = None

\* The lower-case letter of an upper-case ASCII letter; any other character
\* is left as it is.
LowerOf(c) ==
    CASE c = "B" -> "b" [] c = "P" -> "p" [] c = "R" -> "r"
      [] c = "U" -> "u" [] c = "Y" -> "y" [] OTHER -> c

Folded(chars) == [i \in DOMAIN chars |-> LowerOf(chars[i])]

\* The least element of a non-empty set of positions.
Least(positions) == CHOOSE i \in positions : \A j \in positions : i <= j

\* The syntaxes of the looked-up set that list the extension.
WithExtension(set, chars) ==
    {k \in DOMAIN set.syntaxes :
        \E n \in DOMAIN set.syntaxes[k].file_extensions :
            Chars(set.syntaxes[k].file_extensions[n]) = chars}

\* The syntaxes of the looked-up set whose name is chars but for the case of
\* ASCII letters.
WithNameIgnoringCase(set, chars) ==
    {k \in DOMAIN set.syntaxes :
        Folded(Chars(set.syntaxes[k].name)) = Folded(chars)}

\* The latest call was the lookup `op`.
Called(op) == call # None /\ call[1].op = op /\ TargetSet(call[1].on) # None

\* The set the latest call was made on.
CalledSet == TargetSet(call[1].on)[1]

\* C11: find_syntax_by_token(t) returns the first syntax that lists t as a
\* file extension; only if there is none, the first syntax whose name is t up
\* to ASCII case; nothing otherwise.  An extension match wins over an earlier
\* syntax whose name matches.
C11_FindByToken ==
    Called("find_syntax_by_token") =>
        LET by_extension == WithExtension(CalledSet, call[1].arg)
            by_name == WithNameIgnoringCase(CalledSet, call[1].arg)
        IN call[1].result =
                IF by_extension # {} THEN Some(Least(by_extension) - 1)
                ELSE IF by_name # {} THEN Some(Least(by_name) - 1)
                ELSE None

\* The token is the extension of the second syntax and, but for the case,
\* the name of the first one: the second syntax is returned.
C11_Witness ==
    /\ Called("find_syntax_by_token")
    /\ Len(syntaxes) >= 2
    /\ WithNameIgnoringCase(CalledSet, call[1].arg) = {1}
    /\ WithExtension(CalledSet, call[1].arg) = {2}
    /\ Chars(syntaxes[1].name) # call[1].arg
    /\ call[1].result = Some(1)

\* The syntaxes of the looked-up set whose first_line_match is there,
\* compiles and finds something in line.
WithFirstLine(set, line) ==
    {k \in DOMAIN set.syntaxes :
        /\ set.syntaxes[k].first_line_match # None
        /\ LET reg == Regex_new(Chars(set.syntaxes[k].first_line_match[1]))
           IN reg.ok /\ Finds(reg.value, line)}

\* The first of them in insertion order, as the index a lookup returns.
FirstWithFirstLine(set, line) ==
    IF WithFirstLine(set, line) = {} THEN None
    ELSE Some(Least(WithFirstLine(set, line)) - 1)

\* C12: find_syntax_for_file(path) looks the whole file name up as an
\* extension, then the extension, and returns the first hit without opening
\* the file; when both miss it opens the file: an error of opening or reading
\* is the result, otherwise the result is that of find_syntax_by_first_line
\* on the first line.
C12_FindForFile ==
    Called("find_syntax_for_file") =>
        LET by_name == WithExtension(CalledSet, UnwrapOrEmpty(file_name(call[1].arg)))
            by_extension == WithExtension(CalledSet, UnwrapOrEmpty(extension(call[1].arg)))
            file == call[1].file
        IN IF by_name # {}
           THEN call[1].result = Ok(Some(Least(by_name) - 1)) /\ ~call[1].opened
           ELSE IF by_extension # {}
           THEN call[1].result = Ok(Some(Least(by_extension) - 1)) /\ ~call[1].opened
           ELSE /\ call[1].opened
                /\ IF ~file.exists \/ ~file.readable THEN ~call[1].result.ok
                   ELSE call[1].result =
                            Ok(FirstWithFirstLine(CalledSet, read_line(file.text)))

\* The file name is the extension of the second syntax and ends with the
\* extension of the first one: the second syntax is returned although no
\* file is at the path.  On the same set a path that no extension matches
\* gives an error when the file is missing or unreadable, and the syntax of
\* the first line when the file has text.
C12_Witness ==
    /\ Called("find_syntax_for_file")
    /\ Len(syntaxes) >= 2
    /\ WithExtension(CalledSet, UnwrapOrEmpty(extension(call[1].arg))) = {1}
    /\ WithExtension(CalledSet, UnwrapOrEmpty(file_name(call[1].arg))) = {2}
    /\ call[1].file = NoFile
    /\ call[1].result = Ok(Some(1))
    /\ ~call[1].opened
    /\ LET path == <<"d", ".", "r", "/", "z">>
           text == <<"#", "!", "r", "b", "\n", "z">>
       IN /\ ~find_syntax_for_file(CalledSet, path, NoFile).result.ok
          /\ ~find_syntax_for_file(CalledSet, path, Unreadable).result.ok
          /\ find_syntax_for_file(CalledSet, path, TextFile(text)).result = Ok(Some(0))
          /\ find_syntax_for_file(CalledSet, path, TextFile(<<>>)).result = Ok(None)

\* C13: find_syntax_by_first_line(line) returns the first syntax in insertion
\* order whose first_line_match is there, compiles and matches somewhere in
\* line, and nothing when there is none; syntaxes without a pattern or with
\* one that does not compile are skipped without shifting the syntax a later
\* cache entry stands for; so on the first call and on every later one.
C13_FindByFirstLine ==
    Called("find_syntax_by_first_line") =>
        /\ call[1].result = FirstWithFirstLine(CalledSet, call[1].arg)
        /\ \A line \in QueryLines :
                find_syntax_by_first_line(CalledSet, line).result =
                    FirstWithFirstLine(CalledSet, line)

\* A syntax without a pattern and one whose pattern does not compile come
\* first; the third syntax is returned from a cache that is filled, and a
\* line that no pattern matches gives nothing.
C13_Witness ==
    /\ Called("find_syntax_by_first_line")
    /\ Len(syntaxes) = 3
    /\ syntaxes[1].first_line_match = None
    /\ syntaxes[2].first_line_match # None
    /\ ~Regex_new(Chars(syntaxes[2].first_line_match[1])).ok
    /\ call[1].result = Some(2)
    /\ CalledSet.first_line_cache.cached_until = 3
    /\ Len(CalledSet.first_line_cache.regexes) = 1
    /\ find_syntax_by_first_line(CalledSet, <<"#", "!", "r">>).result = None

\* The syntaxes of the built set whose first_line_match is there and compiles.
Compilable ==
    {k \in DOMAIN syntaxes :
        /\ syntaxes[k].first_line_match # None
        /\ Regex_new(Chars(syntaxes[k].first_line_match[1])).ok}

\* The cache holds one entry for each of them, in the order of the syntaxes,
\* and is marked as covering all syntaxes.
CacheComplete ==
    /\ Cache.cached_until = Len(syntaxes)
    /\ Len(Cache.regexes) = Cardinality(Compilable)
    /\ \A n \in DOMAIN Cache.regexes :
        LET k == Cache.regexes[n][2] + 1
        IN /\ k \in Compilable
           /\ Cardinality({j \in Compilable : j < k}) = n - 1
           /\ Cache.regexes[n][1] = Regex_new(Chars(syntaxes[k].first_line_match[1])).value

\* The threads that are inside the locked part of find_syntax_by_first_line.
Holding == {t \in Threads : threads[t].pc \in {"ensure_filled", "fill", "scan"}}

\* C14: in every interleaving of lookups by several threads on a shared set
\* the cache is filled once, under the mutex: no second thread enters the
\* locked part, the loop of ensure_filled is entered at most once, a cache
\* that has been filled holds exactly one entry per syntax with a pattern
\* that compiles, in syntax order, with cached_until the number of syntaxes,
\* and stays so; every finished call has the result it would have alone.
C14_ConcurrentLookups ==
    IsSet =>
        /\ Cardinality(Holding) <= 1
        /\ fills <= 1
        /\ (Cache.cached_until # 0 \/ \E t \in Threads : threads[t].pc = "scan")
                => CacheComplete
        /\ \A t \in Threads :
            threads[t].pc = "done" =>
                IF threads[t].op = "find_syntax_by_first_line"
                THEN /\ CacheComplete
                     /\ syntaxes # <<>> => fills = 1
                     /\ threads[t].result =
                            find_syntax_by_first_line(clone(syntax_set[1]),
                                                      threads[t].arg).result
                ELSE threads[t].result =
                        find_syntax_by_extension(syntax_set[1], threads[t].arg)

\* Two threads have finished first-line lookups of different lines with
\* different results on a set with two compiled patterns, the cache was
\* filled once.
C14_Witness ==
    /\ IsSet
    /\ Cardinality(Compilable) = 2
    /\ Len(syntaxes) = 3
    /\ fills = 1
    /\ \E t, u \in Threads :
        /\ threads[t].pc = "done"
        /\ threads[u].pc = "done"
        /\ threads[t].op = "find_syntax_by_first_line"
        /\ threads[u].op = "find_syntax_by_first_line"
        /\ threads[t].result # None
        /\ threads[u].result # None
        /\ threads[t].result # threads[u].result

\* The copy and the set it was made of give the same result for every
\* lookup.
SameLookups(a, b) ==
    /\ \A line \in QueryLines :
            find_syntax_by_first_line(a, line).result =
                find_syntax_by_first_line(b, line).result
    /\ \A ext \in CopyExtensions :
            find_syntax_by_extension(a, ext) = find_syntax_by_extension(b, ext)
    /\ \A path \in QueryPaths :
            find_syntax_by_path(a, path) = find_syntax_by_path(b, path)
    /\ \A path \in {<<"z", ".", "r">>, <<"z", ".", "z">>} : \A file \in FileStates :
            find_syntax_for_file(a, path, file).result =
                find_syntax_for_file(b, path, file).result

\* The copy was made by `how`.
IsCopy(how) == copy # None /\ copied # None /\ copied[1].how = how

\* C15: a clone has the syntaxes, contexts and path table of the original
\* and a first-line cache of its own that is empty (no entries,
\* cached_until = 0) when the clone is made, whatever the original's cache
\* holds; it is usable after the original was dropped or had its cache
\* filled, and every lookup on it gives what the original gives.
C15_Clone ==
    IsCopy("clone") =>
        LET original == copied[1].set
        IN /\ copy[1].syntaxes = original.syntaxes
           /\ copy[1].contexts = original.contexts
           /\ copy[1].path_syntaxes = original.path_syntaxes
           /\ (call # None /\ call[1].op = "clone") =>
                    /\ copy[1].first_line_cache.regexes = <<>>
                    /\ copy[1].first_line_cache.cached_until = 0
           /\ copy[1].first_line_cache \in
                    {FirstLineCache_new,
                     find_syntax_by_first_line(clone(original), <<>>).first_line_cache}
           /\ SameLookups(copy[1], original)
           /\ IsSet => SameLookups(copy[1], syntax_set[1])
           /\ (call # None /\ call[1].op = "find_syntax_by_first_line") =>
                    call[1].result =
                        find_syntax_by_first_line(original, call[1].arg).result
           /\ (call # None /\ call[1].op = "find_syntax_by_extension") =>
                    call[1].result = find_syntax_by_extension(original, call[1].arg)

\* The original, with contexts, a path table and a filled cache when it was
\* cloned, has been dropped; a first-line lookup on the clone has filled the
\* clone's cache and found a syntax.
C15_Witness ==
    /\ IsCopy("clone")
    /\ syntax_set = None
    /\ copied[1].set.first_line_cache.cached_until = 3
    /\ Len(copied[1].set.first_line_cache.regexes) = 2
    /\ copied[1].set.contexts # <<>>
    /\ copied[1].set.path_syntaxes # <<>>
    /\ Called("find_syntax_by_first_line")
    /\ call[1].on = "copy"
    /\ call[1].result = Some(2)
    /\ copy[1].first_line_cache = copied[1].set.first_line_cache

InsertedOnce ==
    mark # None =>
        /\ \A i, j \in DOMAIN mark[1].inserted :
                i # j => mark[1].inserted[i] # mark[1].inserted[j]
        /\ mark[1].no_prototype = Range(mark[1].inserted)
        /\ Len(mark[1].stack) <= Len(mark[1].inserted) + 1

\* The traversal has returned with the set build() goes on with.
MarkFinished ==
    /\ mark # None
    /\ mark[1].done
    /\ mark[1].no_prototype =
            recursively_mark_no_prototype(
                mark[1].syntax, mark[1].syntax.contexts["prototype"],
                mark[1].contexts, {})

\* C17: the traversal that marks the contexts reached from the prototype
\* context terminates for every syntax, also when contexts refer to each
\* other cyclically: each context id is inserted into the visited set at
\* most once, and the outermost call returns.
C17_MarkTerminates == []InsertedOnce /\ <>MarkFinished

\* The traversal of a syntax whose three contexts all refer to each other
\* and to themselves has returned with all three marked.
C17_Witness ==
    /\ MarkFinished
    /\ Len(mark[1].inserted) = 3
    /\ \A id \in mark[1].no_prototype :
            Len(mark[1].contexts[id + 1].patterns) = 3

====
